---- MODULE Spec2Model ----
(***************************************************************************)
(* CmapTable::glyph_mapping_for_codepoint_ranges                           *)
(* (pathfinder-classic/src/tables/cmap.rs) as a state machine.             *)
(*                                                                         *)
(* The cmap table is a sequence of bytes; every read goes through a        *)
(* bounds-checked cursor (a byte position).  Integer widths are scaled:    *)
(* a byte holds 0 .. ByteRadix-1, a u16 is two bytes (0 .. ByteRadix^2-1)  *)
(* and a u32 is four bytes (0 .. ByteRadix^4-1), big-endian, so that the   *)
(* u16/u32 boundaries, the `as u16` truncations and the overflows of the   *)
(* source are reachable.  Arithmetic overflow panics when the build has    *)
(* overflow checks (debug) and wraps when it has not (release).            *)
(***************************************************************************)
EXTENDS Integers, Sequences, FiniteSets, TLC

\* ------------------------------------------------------------------ bounds
ByteRadix == 4
MaxSegs == 3
MaxTables == 2
MaxExtraEntries == 4

\* --------------------------------------------------------- program constants
PLATFORM_ID_UNICODE == 0
PLATFORM_ID_MICROSOFT == 3
MICROSOFT_ENCODING_ID_UNICODE_BMP == 1
MICROSOFT_ENCODING_ID_UNICODE_UCS4 == 10
FORMAT_SEGMENT_MAPPING_TO_DELTA_VALUES == 4
FORMAT_SEGMENTED_COVERAGE == 12
MISSING_GLYPH == 0
SizeOfU16 == 2
SizeOfSegment == 12

U16Mod == ByteRadix * ByteRadix
U16Max == U16Mod - 1
U32Mod == U16Mod * U16Mod
U32Max == U32Mod - 1

Min(a, b) == IF a <= b THEN a ELSE b

\* ------------------------------------------------------------ integer casts
\* `x as u16`: truncation to the low 16 bits.
AsU16(x) == x % U16Mod
\* `x as i16`: the same bits read as a signed value.
AsI16(x) == IF AsU16(x) > U16Max \div 2 THEN AsU16(x) - U16Mod ELSE AsU16(x)
\* i16::wrapping_add
WrappingAddI16(a, b) == AsI16(a + b)

\* ------------------------------------------------------------- byte cursor
\* A cursor is a position into the table's bytes (the slice bytes[pos..]).
EofRead == [ok |-> FALSE, v |-> 0, pos |-> 0]

\* ReadBytesExt::read_u16::<BigEndian> on &[u8]
ReadU16(b, pos) ==
    IF pos + 2 <= Len(b)
    THEN [ok |-> TRUE, v |-> b[pos + 1] * ByteRadix + b[pos + 2], pos |-> pos + 2]
    ELSE EofRead

\* ReadBytesExt::read_i16::<BigEndian>
ReadI16(b, pos) ==
    LET r == ReadU16(b, pos) IN [r EXCEPT !.v = AsI16(r.v)]

\* ReadBytesExt::read_u32::<BigEndian>
ReadU32(b, pos) ==
    IF pos + 4 <= Len(b)
    THEN [ok |-> TRUE,
          v |-> ((b[pos + 1] * ByteRadix + b[pos + 2]) * ByteRadix + b[pos + 3]) * ByteRadix
                + b[pos + 4],
          pos |-> pos + 4]
    ELSE EofRead

\* util::Jump for &[u8]: advance the slice by `offset` bytes; an offset equal to
\* the remaining length is legal, a larger one is an error.
Jump(b, pos, offset) ==
    IF pos + offset <= Len(b)
    THEN [ok |-> TRUE, v |-> 0, pos |-> pos + offset]
    ELSE EofRead

\* ------------------------------------------------------------ table layout
\* The on-disk layout the parser reads, used to build the input tables.
Enc16(v) == << (v \div ByteRadix) % ByteRadix, v % ByteRadix >>
Enc32(v) == Enc16((v \div U16Mod) % U16Mod) \o Enc16(v % U16Mod)

RECURSIVE Flatten(_)
Flatten(ss) == IF ss = << >> THEN << >> ELSE Head(ss) \o Flatten(Tail(ss))

SeqsUpTo(S, n) == UNION { [1..k -> S] : k \in 0..n }

\* version, numTables, then the encoding records
EncodeHeader(version, records) ==
    Enc16(version) \o Enc16(Len(records)) \o
    Flatten([i \in 1..Len(records) |->
        Enc16(records[i].platform_id) \o Enc16(records[i].encoding_id)
            \o Enc32(records[i].offset)])

HeaderLen(n) == 4 + 8 * n

\* idRangeOffset of segment i (0-based) of n: 0 for a direct-mapped segment,
\* else the byte distance from its own slot to the start of glyphIdArray.
IdRangeOffsetFor(i, n, mode) ==
    IF mode = "direct" \/ (mode = "alternating" /\ i % 2 = 1) THEN 0 ELSE 2 * (n - i)

\* A Format 4 subtable: format, length, language, segCountX2, searchRange,
\* entrySelector, rangeShift, endCode[], pad, startCode[], idDelta[],
\* idRangeOffset[], glyphIdArray[].
EncodeFormat4(format, segs, id_delta, mode, glyph_id_array) ==
    LET n == Len(segs) IN
    Enc16(format) \o Enc16(0) \o Enc16(0) \o Enc16(2 * n) \o Enc16(0) \o Enc16(0) \o Enc16(0)
    \o Flatten([i \in 1..n |-> Enc16(segs[i][2])])
    \o Enc16(0)
    \o Flatten([i \in 1..n |-> Enc16(segs[i][1])])
    \o Flatten([i \in 1..n |-> Enc16(id_delta)])
    \o Flatten([i \in 1..n |-> Enc16(IdRangeOffsetFor(i - 1, n, mode))])
    \o Flatten([i \in 1..Len(glyph_id_array) |-> Enc16(glyph_id_array[i])])

\* A Format 12 subtable: format, reserved, length, language, numGroups, then
\* (startCharCode, endCharCode, startGlyphID) triples.
EncodeFormat12(format, groups, start_glyph_id) ==
    Enc16(format) \o Enc16(0) \o Enc32(0) \o Enc32(0) \o Enc32(Len(groups))
    \o Flatten([i \in 1..Len(groups) |->
        Enc32(groups[i][1]) \o Enc32(groups[i][2]) \o Enc32(start_glyph_id + 2 * (i - 1))])

\* ------------------------------------------------------------------ inputs
\* Glyph ids stored in glyphIdArray by the Format 4 input tables.
GlyphIdArray == << 5, 0, 7 >>

\* (startCode, endCode) pairs the Format 4 input tables draw their segments
\* from; sequences of them need not be sorted nor disjoint.
SegChoices ==
    { <<0, 1>>, <<3, 4>>, <<1, 5>>, <<U16Max - 1, U16Max>> }

\* (startCharCode, endCharCode) pairs of the Format 12 input tables.
GroupChoices ==
    { <<0, 1>>, <<3, 5>>, <<U16Max, U16Mod + 1>>, <<U32Max - 1, U32Max>> }

\* The queried CodepointRange lists.
Range(s, e) == [start |-> s, end |-> e]

Format4RangeLists ==
    { << >>,
      << Range(0, 4) >>,
      << Range(U16Max - 1, U16Max) >>,
      << Range(U16Max - 1, U16Mod + 1) >>,
      << Range(U32Max - 1, U32Max) >>,
      << Range(4, 5), Range(0, 3) >> }

Format12RangeLists ==
    { << >>,
      << Range(1, 6) >>,
      << Range(U16Max - 1, U16Mod + 1) >>,
      << Range(U32Max - 2, U32Max) >>,
      << Range(4, 5), Range(0, 3) >> }

Record(p, e, o) == [platform_id |-> p, encoding_id |-> e, offset |-> o]

Input(b, n, rs) == [bytes |-> SubSeq(b, 1, n), full_len |-> Len(b), ranges |-> rs]

\* One Microsoft/BMP record leading to a Format 4 subtable.
Format4Table(segs, id_delta, mode) ==
    EncodeHeader(0, << Record(PLATFORM_ID_MICROSOFT, MICROSOFT_ENCODING_ID_UNICODE_BMP,
                              HeaderLen(1)) >>)
    \o EncodeFormat4(FORMAT_SEGMENT_MAPPING_TO_DELTA_VALUES, segs, id_delta, mode,
                     GlyphIdArray)

\* One Microsoft/UCS-4 record leading to a Format 12 subtable.
Format12Table(groups, start_glyph_id) ==
    EncodeHeader(0, << Record(PLATFORM_ID_MICROSOFT, MICROSOFT_ENCODING_ID_UNICODE_UCS4,
                              HeaderLen(1)) >>)
    \o EncodeFormat12(FORMAT_SEGMENTED_COVERAGE, groups, start_glyph_id)

Format4Inputs ==
    { Input(Format4Table(segs, d, mode), Len(Format4Table(segs, d, mode)), rs) :
        segs \in SeqsUpTo(SegChoices, MaxSegs),
        d \in {1, U16Max},
        mode \in {"direct", "alternating"},
        rs \in Format4RangeLists }

\* Ranges that start in the BMP, end above it and need a walk over the whole
\* BMP, against a few tables.
Format4LongInputs ==
    { Input(Format4Table(segs, 1, mode), Len(Format4Table(segs, 1, mode)), rs) :
        segs \in { << >>, << <<0, 1>> >>, << <<0, U16Max - 1>> >>, << <<0, U16Max>> >>,
                   << <<0, 1>>, <<U16Max, U16Max>> >> },
        mode \in {"direct", "alternating"},
        rs \in { << Range(0, U16Mod + 1) >>, << Range(0, U16Mod + U16Max - 1) >>,
                 << Range(0, U16Max) >> } }

Format12Inputs ==
    { Input(Format12Table(groups, g), Len(Format12Table(groups, g)), rs) :
        groups \in SeqsUpTo(GroupChoices, MaxSegs),
        g \in {1, U16Max - 1, U32Max - 1},
        rs \in Format12RangeLists }

\* Tables with several encoding records and two subtables A and B; a record's
\* offset leads to A, to B, to the end of the table or past it.
RecordChoices ==
    { << PLATFORM_ID_UNICODE, 7, "A" >>,
      << PLATFORM_ID_UNICODE, 0, "past" >>,
      << PLATFORM_ID_MICROSOFT, MICROSOFT_ENCODING_ID_UNICODE_BMP, "B" >>,
      << PLATFORM_ID_MICROSOFT, MICROSOFT_ENCODING_ID_UNICODE_UCS4, "end" >>,
      << PLATFORM_ID_MICROSOFT, 0, "A" >>,
      << 1, 0, "B" >> }

SubtableA(format) == EncodeFormat4(format, << <<0, 1>> >>, 1, "direct", << >>)
SubtableB(format) == EncodeFormat12(format, << <<3, 5>> >>, 1)

SelectorTable(version, recs, fa, fb) ==
    LET n    == Len(recs)
        offA == HeaderLen(n)
        offB == offA + Len(SubtableA(fa))
        end  == offB + Len(SubtableB(fb))
        off(t) == CASE t = "A" -> offA [] t = "B" -> offB [] t = "end" -> end
                    [] OTHER -> end + 1
    IN EncodeHeader(version, [i \in 1..n |-> Record(recs[i][1], recs[i][2], off(recs[i][3]))])
       \o SubtableA(fa) \o SubtableB(fb)

SelectorInputs ==
    { Input(SelectorTable(v, recs, fa, fb), Len(SelectorTable(v, recs, fa, fb)),
            << Range(0, 3) >>) :
        v \in {0, 1},
        recs \in SeqsUpTo(RecordChoices, MaxTables),
        fa \in {FORMAT_SEGMENT_MAPPING_TO_DELTA_VALUES, FORMAT_SEGMENTED_COVERAGE, 6},
        fb \in {FORMAT_SEGMENTED_COVERAGE, 0} }

\* Well-formed tables cut short at every length.
TruncationBases ==
    { [table |-> Format4Table(<< <<0, 1>>, <<3, 4>> >>, 1, "alternating"),
       ranges |-> << Range(0, 4) >>],
      [table |-> Format4Table(<< <<U16Max - 1, U16Max>> >>, 1, "direct"),
       ranges |-> << Range(U16Max - 1, U16Max) >>],
      [table |-> Format12Table(<< <<0, 1>>, <<3, 5>>, <<U16Max, U16Mod + 1>> >>, 1),
       ranges |-> << Range(1, 6) >>],
      [table |-> Format12Table(<< <<0, 1>>, <<3, 5>> >>, 1),
       ranges |-> << >>],
      [table |-> SelectorTable(0, << <<1, 0, "A">>, <<PLATFORM_ID_UNICODE, 7, "B">>,
                                     <<1, 0, "A">> >>,
                               FORMAT_SEGMENT_MAPPING_TO_DELTA_VALUES,
                               FORMAT_SEGMENTED_COVERAGE),
       ranges |-> << Range(4, 5) >>] }

TruncatedInputs ==
    UNION { { Input(base.table, n, base.ranges) : n \in 0..(Len(base.table) - 1) } :
            base \in TruncationBases }

Inputs ==
    Format4Inputs \cup Format4LongInputs \cup Format12Inputs \cup SelectorInputs
        \cup TruncatedInputs

\* ------------------------------------------------------------------- state
VARIABLES
    bytes,             \* self.table.bytes: the cmap table
    full_len,          \* length of the table `bytes` was cut from (history)
    codepoint_ranges,  \* the queried ranges
    overflow_checks,   \* TRUE: arithmetic overflow panics; FALSE: it wraps
    pc,                \* position in the code
    cmap_reader,       \* the reading cursor
    num_tables,        \* encoding records declared by the header
    records_read,      \* encoding records read so far
    seg_count,         \* Format 4: segCountX2 / 2
    num_groups,        \* Format 12: number of groups
    arrays,            \* Format 4 parallel array cursors
    range_index,       \* 1-based index of the range being resolved
    codepoint_range,   \* the working copy of that range
    low, high,         \* binary search window
    segment_index,     \* Format 4: Option<u16>, << >> is None, <<i>> is Some(i)
    found_segment,     \* Format 12: Option<Segment>, likewise
    glyph_mapping,     \* the GlyphMapping under construction
    emitted,           \* per entry: how it was produced (history)
    result             \* "none" while running, else the outcome

vars == << bytes, full_len, codepoint_ranges, overflow_checks, pc, cmap_reader, num_tables,
           records_read, seg_count, num_groups, arrays, range_index, codepoint_range, low,
           high, segment_index, found_segment, glyph_mapping, emitted, result >>

input_vars == << bytes, full_len, codepoint_ranges, overflow_checks >>
selector_vars == << num_tables, records_read >>
search_vars == << low, high, segment_index, found_segment >>
table_vars == << seg_count, num_groups, arrays >>
output_vars == << glyph_mapping, emitted >>

Ok == "Ok"
UnexpectedEndOfData == "UnexpectedEndOfData"
UnsupportedCmapVersion == "UnsupportedCmapVersion"
UnsupportedCmapEncoding == "UnsupportedCmapEncoding"
UnsupportedCmapFormat == "UnsupportedCmapFormat"
Panic == "panic"

NoArrays == [end_codes |-> 0, start_codes |-> 0, id_deltas |-> 0, id_range_offsets |-> 0,
             glyph_ids |-> 0]

\* Entries a run may push before the model stops following it.
EntryCap == U16Mod + MaxExtraEntries

Init ==
    /\ \E inp \in Inputs :
        /\ bytes = inp.bytes
        /\ full_len = inp.full_len
        /\ codepoint_ranges = inp.ranges
    /\ overflow_checks \in BOOLEAN
    /\ pc = "start"
    /\ cmap_reader = 0
    /\ num_tables = 0
    /\ records_read = 0
    /\ seg_count = 0
    /\ num_groups = 0
    /\ arrays = NoArrays
    /\ range_index = 0
    /\ codepoint_range = Range(0, 0)
    /\ low = 0
    /\ high = 0
    /\ segment_index = << >>
    /\ found_segment = << >>
    /\ glyph_mapping = << >>
    /\ emitted = << >>
    /\ result = "none"

\* `return Err(e)` / `return Ok(..)` / panic: the call ends.
Return(r) ==
    /\ pc' = "done"
    /\ result' = r

\* ---------------------------------------------------------------- selector
\* The version check and num_tables.
ReadHeader ==
    /\ pc = "start"
    /\ LET version == ReadU16(bytes, cmap_reader)
           nt      == ReadU16(bytes, version.pos)
       IN IF ~version.ok THEN Return(UnexpectedEndOfData) /\ UNCHANGED << cmap_reader, num_tables >>
          ELSE IF version.v # 0
               THEN Return(UnsupportedCmapVersion) /\ UNCHANGED << cmap_reader, num_tables >>
          ELSE IF ~nt.ok THEN Return(UnexpectedEndOfData) /\ UNCHANGED << cmap_reader, num_tables >>
          ELSE /\ pc' = "records"
               /\ num_tables' = nt.v
               /\ cmap_reader' = nt.pos
               /\ UNCHANGED result
    /\ UNCHANGED << input_vars, records_read, table_vars, range_index, codepoint_range,
                    search_vars, output_vars >>

\* Mutant: every Microsoft encoding is taken for a Unicode one.
AcceptableEncodingAnyMicrosoft(platform_id, encoding_id) ==
    platform_id = PLATFORM_ID_UNICODE \/ platform_id = PLATFORM_ID_MICROSOFT

\* The match arms of the platform/encoding check.
AcceptableEncoding(platform_id, encoding_id) ==
    \/ platform_id = PLATFORM_ID_UNICODE
    \/ platform_id = PLATFORM_ID_MICROSOFT /\ encoding_id = MICROSOFT_ENCODING_ID_UNICODE_BMP
    \/ platform_id = PLATFORM_ID_MICROSOFT /\ encoding_id = MICROSOFT_ENCODING_ID_UNICODE_UCS4

\* One iteration of `for _ in 0..num_tables`.
ReadRecord ==
    /\ pc = "records"
    /\ records_read < num_tables
    /\ LET platform_id == ReadU16(bytes, cmap_reader)
           encoding_id == ReadU16(bytes, platform_id.pos)
           offset      == ReadU32(bytes, encoding_id.pos)
           target      == Jump(bytes, 0, offset.v)
       IN IF ~platform_id.ok \/ ~encoding_id.ok \/ ~offset.ok
          THEN Return(UnexpectedEndOfData) /\ UNCHANGED << cmap_reader, records_read >>
          ELSE IF AcceptableEncoding(platform_id.v, encoding_id.v)
               THEN IF target.ok
                    THEN /\ pc' = "format"
                         /\ cmap_reader' = target.pos
                         /\ records_read' = records_read + 1
                         /\ UNCHANGED result
                    ELSE /\ Return(UnexpectedEndOfData)
                         /\ records_read' = records_read + 1
                         /\ UNCHANGED cmap_reader
               ELSE /\ cmap_reader' = offset.pos
                    /\ records_read' = records_read + 1
                    /\ UNCHANGED << pc, result >>
    /\ UNCHANGED << input_vars, num_tables, table_vars, range_index, codepoint_range,
                    search_vars, output_vars >>

\* The loop ran out of records: `if !table_found`.
NoTableFound ==
    /\ pc = "records"
    /\ records_read >= num_tables
    /\ Return(UnsupportedCmapEncoding)
    /\ UNCHANGED << input_vars, cmap_reader, selector_vars, table_vars, range_index,
                    codepoint_range, search_vars, output_vars >>

\* The format word and the dispatch on it.
ReadFormat ==
    /\ pc = "format"
    /\ LET format == ReadU16(bytes, cmap_reader)
       IN IF ~format.ok THEN Return(UnexpectedEndOfData) /\ UNCHANGED cmap_reader
          ELSE IF format.v = FORMAT_SEGMENT_MAPPING_TO_DELTA_VALUES
               THEN pc' = "f4_header" /\ cmap_reader' = format.pos /\ UNCHANGED result
          ELSE IF format.v = FORMAT_SEGMENTED_COVERAGE
               THEN pc' = "f12_header" /\ cmap_reader' = format.pos /\ UNCHANGED result
          ELSE Return(UnsupportedCmapFormat) /\ UNCHANGED cmap_reader
    /\ UNCHANGED << input_vars, selector_vars, table_vars, range_index, codepoint_range,
                    search_vars, output_vars >>

\* ------------------------------------------------------- shared by resolvers
\* Option: None and Some(x)
None == << >>
Some(x) == << x >>
Unwrap(o) == o[1]

GlyphRange(s, e) == [start |-> s, end |-> e]
MappedGlyphRange(cs, g) == [codepoint_start |-> cs, glyphs |-> g]

\* The entry pushed for a codepoint without a glyph.
MissingGlyphEntry(start) == MappedGlyphRange(start, GlyphRange(MISSING_GLYPH, MISSING_GLYPH))

\* History of an entry: the range it was pushed for, the branch that pushed it,
\* the segment used, codepoint_range.start when the while-iteration began, and
\* the number of codepoints of the range the entry stands for.
Emitted(kind, seg, iter_start, consumed) ==
    [range |-> range_index, kind |-> kind, segment |-> seg, iter_start |-> iter_start,
     consumed |-> consumed]

\* `codepoint_range.start += 1` (u32)
IncrementStart(start) == start + 1

\* A u32 result: in range, wrapped (no overflow checks) or a panic.
CheckedU32(x) ==
    IF 0 <= x /\ x <= U32Max THEN [panic |-> FALSE, v |-> x]
    ELSE [panic |-> overflow_checks, v |-> x % U32Mod]

\* A u16 result, likewise.
CheckedU16(x) ==
    IF 0 <= x /\ x <= U16Max THEN [panic |-> FALSE, v |-> x]
    ELSE [panic |-> overflow_checks, v |-> x % U16Mod]

\* Push the missing-glyph entry for codepoint_range.start and step past it; the
\* next state of the while loop is `next_pc`.
PushMissing(kind, next_pc) ==
    LET next == CheckedU32(IncrementStart(codepoint_range.start))
    IN /\ Len(glyph_mapping) < EntryCap
       /\ glyph_mapping' = Append(glyph_mapping, MissingGlyphEntry(codepoint_range.start))
       /\ emitted' = Append(emitted, Emitted(kind, None, codepoint_range.start, 1))
       /\ IF next.panic
          THEN Return(Panic) /\ UNCHANGED codepoint_range
          ELSE /\ codepoint_range' = [codepoint_range EXCEPT !.start = next.v]
               /\ pc' = next_pc
               /\ UNCHANGED result

\* ---------------------------------------------------------------- Format 4
\* The mapping table header and the parallel array pointers.
F4Header ==
    /\ pc = "f4_header"
    /\ LET length         == ReadU16(bytes, cmap_reader)
           language       == ReadU16(bytes, length.pos)
           seg_count_x2   == ReadU16(bytes, language.pos)
           search_range   == ReadU16(bytes, seg_count_x2.pos)
           entry_selector == ReadU16(bytes, search_range.pos)
           range_shift    == ReadU16(bytes, entry_selector.pos)
           n              == seg_count_x2.v \div 2
           end_codes      == range_shift.pos
           start_codes    == Jump(bytes, end_codes, (n + 1) * SizeOfU16)
           id_deltas      == Jump(bytes, start_codes.pos, n * SizeOfU16)
           id_range_offsets == Jump(bytes, id_deltas.pos, n * SizeOfU16)
           glyph_ids      == Jump(bytes, id_range_offsets.pos, n * SizeOfU16)
       IN IF /\ length.ok /\ language.ok /\ seg_count_x2.ok /\ search_range.ok
             /\ entry_selector.ok /\ range_shift.ok
             /\ start_codes.ok /\ id_deltas.ok /\ id_range_offsets.ok /\ glyph_ids.ok
          THEN /\ seg_count' = n
               /\ cmap_reader' = range_shift.pos
               /\ arrays' = [end_codes |-> end_codes, start_codes |-> start_codes.pos,
                             id_deltas |-> id_deltas.pos,
                             id_range_offsets |-> id_range_offsets.pos,
                             glyph_ids |-> glyph_ids.pos]
               /\ pc' = "f4_for"
               /\ UNCHANGED result
          ELSE Return(UnexpectedEndOfData) /\ UNCHANGED << seg_count, cmap_reader, arrays >>
    /\ UNCHANGED << input_vars, selector_vars, num_groups, range_index, codepoint_range, search_vars,
                    output_vars >>

\* `for codepoint_range in codepoint_ranges`: take the next range.
F4NextRange ==
    /\ pc = "f4_for"
    /\ range_index < Len(codepoint_ranges)
    /\ range_index' = range_index + 1
    /\ codepoint_range' = codepoint_ranges[range_index + 1]
    /\ pc' = "f4_while"
    /\ UNCHANGED << input_vars, cmap_reader, selector_vars, table_vars, search_vars,
                    output_vars, result >>

\* The ranges are exhausted: Ok(glyph_mapping).
F4Finish ==
    /\ pc = "f4_for"
    /\ range_index >= Len(codepoint_ranges)
    /\ Return(Ok)
    /\ UNCHANGED << input_vars, cmap_reader, selector_vars, table_vars, range_index,
                    codepoint_range, search_vars, output_vars >>

\* `while codepoint_range.end >= codepoint_range.start` is false.
F4RangeDone ==
    /\ pc = "f4_while"
    /\ ~(codepoint_range.end >= codepoint_range.start)
    /\ pc' = "f4_for"
    /\ UNCHANGED << input_vars, cmap_reader, selector_vars, table_vars, range_index,
                    codepoint_range, search_vars, output_vars, result >>

\* codepoint_range.start > u16::MAX
F4OutOfBmp ==
    /\ pc = "f4_while"
    /\ codepoint_range.end >= codepoint_range.start
    /\ codepoint_range.start > U16Max
    /\ PushMissing("out_of_bmp", "f4_while")
    /\ UNCHANGED << input_vars, cmap_reader, selector_vars, table_vars, range_index,
                    search_vars >>

\* `let (mut low, mut high) = (0, seg_count)`
F4BeginSearch ==
    /\ pc = "f4_while"
    /\ codepoint_range.end >= codepoint_range.start
    /\ ~(codepoint_range.start > U16Max)
    /\ low' = 0
    /\ high' = seg_count
    /\ segment_index' = None
    /\ pc' = "f4_search"
    /\ UNCHANGED << input_vars, cmap_reader, selector_vars, table_vars, range_index,
                    codepoint_range, found_segment, output_vars, result >>

\* The element `index` of a parallel array: jump(index * 2), read_u16.
ReadArrayU16(array, index) ==
    LET at == Jump(bytes, array, index * 2)
    IN IF at.ok THEN ReadU16(bytes, at.pos) ELSE EofRead

\* Mutant: a codepoint equal to end_code is taken to lie above the segment.
F4AboveOrAtEnd(c, end_code) == c >= end_code

\* `if start_codepoint_range > end_code`
F4AboveSegment(c, end_code) == c > end_code
\* `if start_codepoint_range < start_code`
F4BelowSegment(c, start_code) == c < start_code

\* The search window after a probe at mid that did not find the segment.
NarrowAbove(mid) == mid + 1
NarrowBelow(mid) == mid

\* One iteration of `while low < high`.
F4Probe ==
    /\ pc = "f4_search"
    /\ low < high
    /\ LET mid        == (low + high) \div 2
           c          == AsU16(codepoint_range.start)
           end_code   == ReadArrayU16(arrays.end_codes, mid)
           start_code == ReadArrayU16(arrays.start_codes, mid)
       IN IF ~end_code.ok
          THEN Return(UnexpectedEndOfData) /\ UNCHANGED << low, high, segment_index >>
          ELSE IF F4AboveSegment(c, end_code.v)
               THEN /\ low' = NarrowAbove(mid)
                    /\ UNCHANGED << high, segment_index, pc, result >>
          ELSE IF ~start_code.ok
               THEN Return(UnexpectedEndOfData) /\ UNCHANGED << low, high, segment_index >>
          ELSE IF F4BelowSegment(c, start_code.v)
               THEN /\ high' = NarrowBelow(mid)
                    /\ UNCHANGED << low, segment_index, pc, result >>
          ELSE /\ segment_index' = Some(mid)
               /\ pc' = "f4_segment"
               /\ UNCHANGED << low, high, result >>
    /\ UNCHANGED << input_vars, cmap_reader, selector_vars, table_vars, range_index,
                    codepoint_range, found_segment, output_vars >>

\* The search ended with segment_index = None.
F4NotFound ==
    /\ pc = "f4_search"
    /\ ~(low < high)
    /\ PushMissing("unmapped", "f4_while")
    /\ UNCHANGED << input_vars, cmap_reader, selector_vars, table_vars, range_index,
                    search_vars >>

\* `codepoint_range.end as u16`
EndCodepointRange(end) == AsU16(end)

\* `cmp::min(end_codepoint_range, end_code)`
ClipToSegment(end_codepoint_range, end_code) == Min(end_codepoint_range, end_code)

\* Mutant: the loop resumes one codepoint too far.
StartAfterSkipping(end_codepoint_range) == end_codepoint_range + 2

\* `codepoint_range.start = (end_codepoint_range + 1) as u32`
StartAfter(end_codepoint_range) == end_codepoint_range + 1

\* Mutant: the two ends of the glyph range are exchanged.
DirectGlyphsSwapped(start_codepoint_range, end_codepoint_range, id_delta) ==
    [start |-> AsU16(WrappingAddI16(AsI16(end_codepoint_range), id_delta)),
     end |-> AsU16(WrappingAddI16(AsI16(start_codepoint_range), id_delta))]

\* The glyph range of a direct-mapped run: code + idDelta, wrapping.
DirectGlyphs(start_codepoint_range, end_codepoint_range, id_delta) ==
    GlyphRange(AsU16(WrappingAddI16(AsI16(start_codepoint_range), id_delta)),
               AsU16(WrappingAddI16(AsI16(end_codepoint_range), id_delta)))

\* Mutant: the segment's own slot offset is left out of the jump.
IndirectJumpWithoutSlot(index, code_offset, id_range_offset) ==
    code_offset * 2 + id_range_offset

\* The jump from the start of idRangeOffset[] to the glyph id of one code.
IndirectJump(index, code_offset, id_range_offset) ==
    index * 2 + code_offset * 2 + id_range_offset

\* The glyph id pushed for the value read from glyphIdArray.
IndirectGlyphId(glyph_id, id_delta) ==
    IF glyph_id = 0 THEN MISSING_GLYPH
    ELSE AsU16(WrappingAddI16(AsI16(glyph_id), id_delta))

\* Mutant: every entry of the loop is given the segment's first code.
IndirectCodepointOfSegmentStart(start_code, code_offset) == start_code

\* `start_code as u32 + code_offset as u32`
IndirectCodepoint(start_code, code_offset) == start_code + code_offset

\* `for code_offset in start_code_offset..(end_code_offset + 1)`: the entries
\* pushed from code_offset on, and whether a read ran out of data.
RECURSIVE IndirectLoop(_, _, _, _, _, _)
IndirectLoop(code_offset, limit, index, id_range_offset, start_code, id_delta) ==
    IF code_offset >= limit THEN [ok |-> TRUE, entries |-> << >>]
    ELSE LET reader   == Jump(bytes, arrays.id_range_offsets,
                              IndirectJump(index, code_offset, id_range_offset))
             glyph_id == IF reader.ok THEN ReadU16(bytes, reader.pos) ELSE EofRead
         IN IF ~glyph_id.ok THEN [ok |-> FALSE, entries |-> << >>]
            ELSE LET g    == IndirectGlyphId(glyph_id.v, id_delta)
                     rest == IndirectLoop(code_offset + 1, limit, index, id_range_offset,
                                          start_code, id_delta)
                 IN [ok |-> rest.ok,
                     entries |-> << MappedGlyphRange(IndirectCodepoint(start_code, code_offset),
                                                     GlyphRange(g, g)) >> \o rest.entries]

\* The body of the while loop once the segment is known: what it pushes, where
\* it leaves codepoint_range.start, and how it ends.
F4SegmentOutcome ==
    LET index               == Unwrap(segment_index)
        start_codepoint_range == AsU16(codepoint_range.start)
        start_code          == ReadArrayU16(arrays.start_codes, index)
        end_code            == ReadArrayU16(arrays.end_codes, index)
        id_range_offset     == ReadArrayU16(arrays.id_range_offsets, index)
        id_delta            == LET r == ReadArrayU16(arrays.id_deltas, index)
                               IN [r EXCEPT !.v = AsI16(r.v)]
        end_codepoint_range == ClipToSegment(EndCodepointRange(codepoint_range.end), end_code.v)
        next_start          == CheckedU16(StartAfter(end_codepoint_range))
        start_code_offset   == CheckedU16(start_codepoint_range - start_code.v)
        end_code_offset     == CheckedU16(end_codepoint_range - start_code.v)
        limit               == CheckedU16(end_code_offset.v + 1)
        loop                == IndirectLoop(start_code_offset.v, limit.v, index,
                                            id_range_offset.v, start_code.v, id_delta.v)
        none                == [status |-> "eof", start |-> codepoint_range.start,
                                entries |-> << >>, history |-> << >>]
    IN IF ~start_code.ok \/ ~end_code.ok \/ ~id_range_offset.ok \/ ~id_delta.ok
       THEN none
       ELSE IF next_start.panic \/ start_code_offset.panic \/ end_code_offset.panic
            THEN [none EXCEPT !.status = "panic"]
       ELSE IF id_range_offset.v = 0
            THEN [status |-> "ok", start |-> next_start.v,
                  entries |-> << MappedGlyphRange(start_codepoint_range,
                                     DirectGlyphs(start_codepoint_range, end_codepoint_range,
                                                  id_delta.v)) >>,
                  history |-> << Emitted("direct", index, codepoint_range.start,
                                         end_codepoint_range - start_codepoint_range + 1) >>]
       ELSE IF limit.panic
            THEN [none EXCEPT !.status = "panic"]
       ELSE [status |-> IF loop.ok THEN "ok" ELSE "eof", start |-> next_start.v,
             entries |-> loop.entries,
             history |-> [k \in 1..Len(loop.entries) |->
                            Emitted("indirect", index, codepoint_range.start, 1)]]

\* "Read out the segment info" to the end of the while body.
F4Segment ==
    /\ pc = "f4_segment"
    /\ LET out == F4SegmentOutcome
       IN /\ Len(glyph_mapping) + Len(out.entries) <= EntryCap
          /\ glyph_mapping' = glyph_mapping \o out.entries
          /\ emitted' = emitted \o out.history
          /\ IF out.status = "ok"
             THEN /\ codepoint_range' = [codepoint_range EXCEPT !.start = out.start]
                  /\ pc' = "f4_while"
                  /\ UNCHANGED result
             ELSE /\ Return(IF out.status = "eof" THEN UnexpectedEndOfData ELSE Panic)
                  /\ UNCHANGED codepoint_range
    /\ UNCHANGED << input_vars, cmap_reader, selector_vars, table_vars, range_index,
                    search_vars >>

\* --------------------------------------------------------------- Format 12
Segment(s, e, g) == [start_char_code |-> s, end_char_code |-> e, start_glyph_id |-> g]

\* reserved, length, language, num_groups
F12Header ==
    /\ pc = "f12_header"
    /\ LET reserved == ReadU16(bytes, cmap_reader)
           length   == ReadU32(bytes, reserved.pos)
           language == ReadU32(bytes, length.pos)
           groups   == ReadU32(bytes, language.pos)
       IN IF reserved.ok /\ length.ok /\ language.ok /\ groups.ok
          THEN /\ num_groups' = groups.v
               /\ cmap_reader' = groups.pos
               /\ pc' = "f12_for"
               /\ UNCHANGED result
          ELSE Return(UnexpectedEndOfData) /\ UNCHANGED << num_groups, cmap_reader >>
    /\ UNCHANGED << input_vars, selector_vars, seg_count, arrays, range_index, codepoint_range,
                    search_vars, output_vars >>

\* `for codepoint_range in codepoint_ranges`: take the next range.
F12NextRange ==
    /\ pc = "f12_for"
    /\ range_index < Len(codepoint_ranges)
    /\ range_index' = range_index + 1
    /\ codepoint_range' = codepoint_ranges[range_index + 1]
    /\ pc' = "f12_while"
    /\ UNCHANGED << input_vars, cmap_reader, selector_vars, table_vars, search_vars,
                    output_vars, result >>

\* The ranges are exhausted: Ok(glyph_mapping).
F12Finish ==
    /\ pc = "f12_for"
    /\ range_index >= Len(codepoint_ranges)
    /\ Return(Ok)
    /\ UNCHANGED << input_vars, cmap_reader, selector_vars, table_vars, range_index,
                    codepoint_range, search_vars, output_vars >>

\* `while codepoint_range.end >= codepoint_range.start` is false.
F12RangeDone ==
    /\ pc = "f12_while"
    /\ ~(codepoint_range.end >= codepoint_range.start)
    /\ pc' = "f12_for"
    /\ UNCHANGED << input_vars, cmap_reader, selector_vars, table_vars, range_index,
                    codepoint_range, search_vars, output_vars, result >>

\* `let (mut low, mut high) = (0, num_groups)`
F12BeginSearch ==
    /\ pc = "f12_while"
    /\ codepoint_range.end >= codepoint_range.start
    /\ low' = 0
    /\ high' = num_groups
    /\ found_segment' = None
    /\ pc' = "f12_search"
    /\ UNCHANGED << input_vars, cmap_reader, selector_vars, table_vars, range_index,
                    codepoint_range, segment_index, output_vars, result >>

\* The group at `mid`: jump(mid * size_of::<[u32; 3]>()) and three reads.
ReadSegment(mid) ==
    LET reader          == Jump(bytes, cmap_reader, mid * SizeOfSegment)
        start_char_code == IF reader.ok THEN ReadU32(bytes, reader.pos) ELSE EofRead
        end_char_code   == IF start_char_code.ok THEN ReadU32(bytes, start_char_code.pos)
                           ELSE EofRead
        start_glyph_id  == IF end_char_code.ok THEN ReadU32(bytes, end_char_code.pos)
                           ELSE EofRead
    IN [ok |-> start_glyph_id.ok,
        v |-> Segment(start_char_code.v, end_char_code.v, start_glyph_id.v)]

\* `if codepoint_range.start < segment.start_char_code`
F12BelowSegment(start, segment) == start < segment.start_char_code
\* `else if codepoint_range.start > segment.end_char_code`
F12AboveSegment(start, segment) == start > segment.end_char_code

\* One iteration of `while low < high`.
F12Probe ==
    /\ pc = "f12_search"
    /\ low < high
    /\ LET sum     == CheckedU32(low + high)
           mid     == sum.v \div 2
           segment == ReadSegment(mid)
       IN IF sum.panic
          THEN Return(Panic) /\ UNCHANGED << low, high, found_segment >>
          ELSE IF ~segment.ok
               THEN Return(UnexpectedEndOfData) /\ UNCHANGED << low, high, found_segment >>
          ELSE IF F12BelowSegment(codepoint_range.start, segment.v)
               THEN /\ high' = NarrowBelow(mid)
                    /\ UNCHANGED << low, found_segment, pc, result >>
          ELSE IF F12AboveSegment(codepoint_range.start, segment.v)
               THEN /\ low' = NarrowAbove(mid)
                    /\ UNCHANGED << high, found_segment, pc, result >>
          ELSE /\ found_segment' = Some(segment.v)
               /\ pc' = "f12_found"
               /\ UNCHANGED << low, high, result >>
    /\ UNCHANGED << input_vars, cmap_reader, selector_vars, table_vars, range_index,
                    codepoint_range, segment_index, output_vars >>

\* `match found_segment { None => .. }`
F12NotFound ==
    /\ pc = "f12_search"
    /\ ~(low < high)
    /\ PushMissing("unmapped", "f12_while")
    /\ UNCHANGED << input_vars, cmap_reader, selector_vars, table_vars, range_index,
                    search_vars >>

\* Mutant: the glyph id of the group's first code, whatever the code.
F12GlyphIdOfGroupStart(segment, code) ==
    [panic |-> FALSE, v |-> AsU16(segment.start_glyph_id)]

\* `(segment.start_glyph_id + code - segment.start_char_code) as u16`
F12GlyphId(segment, code) ==
    LET sum  == CheckedU32(segment.start_glyph_id + code)
        diff == CheckedU32(sum.v - segment.start_char_code)
    IN [panic |-> sum.panic \/ diff.panic, v |-> AsU16(diff.v)]

\* `cmp::min(codepoint_range.end, segment.end_char_code)`
F12ClipToSegment(end, segment) == Min(end, segment.end_char_code)

\* `codepoint_range.start = end + 1`
F12StartAfter(end) == end + 1

\* `match found_segment { Some(segment) => .. }`
F12Found ==
    /\ pc = "f12_found"
    /\ LET segment == Unwrap(found_segment)
           end     == F12ClipToSegment(codepoint_range.end, segment)
           first   == F12GlyphId(segment, codepoint_range.start)
           last    == F12GlyphId(segment, end)
           next    == CheckedU32(F12StartAfter(end))
       IN IF first.panic \/ last.panic
          THEN Return(Panic) /\ UNCHANGED << codepoint_range, output_vars >>
          ELSE /\ Len(glyph_mapping) < EntryCap
               /\ glyph_mapping' = Append(glyph_mapping,
                      MappedGlyphRange(codepoint_range.start, GlyphRange(first.v, last.v)))
               /\ emitted' = Append(emitted,
                      Emitted("group", low, codepoint_range.start,
                              end - codepoint_range.start + 1))
               /\ IF next.panic
                  THEN Return(Panic) /\ UNCHANGED codepoint_range
                  ELSE /\ codepoint_range' = [codepoint_range EXCEPT !.start = next.v]
                       /\ pc' = "f12_while"
                       /\ UNCHANGED result
    /\ UNCHANGED << input_vars, cmap_reader, selector_vars, table_vars, range_index,
                    search_vars >>

\* ------------------------------------------------------------ specification
Next ==
    \/ ReadHeader
    \/ ReadRecord
    \/ NoTableFound
    \/ ReadFormat
    \/ F4Header
    \/ F4NextRange
    \/ F4Finish
    \/ F4RangeDone
    \/ F4OutOfBmp
    \/ F4BeginSearch
    \/ F4Probe
    \/ F4NotFound
    \/ F4Segment
    \/ F12Header
    \/ F12NextRange
    \/ F12Finish
    \/ F12RangeDone
    \/ F12BeginSearch
    \/ F12Probe
    \/ F12NotFound
    \/ F12Found

Spec == Init /\ [][Next]_vars

\* ------------------------------------------------- reading for the properties
\* The big-endian u16 / u32 stored at a byte offset of the table (-1: not there).
Word16(off) ==
    IF off >= 0 /\ off + 2 <= Len(bytes) THEN bytes[off + 1] * ByteRadix + bytes[off + 2]
    ELSE 0 - 1
Word32(off) ==
    IF off >= 0 /\ off + 4 <= Len(bytes) THEN Word16(off) * U16Mod + Word16(off + 2)
    ELSE 0 - 1

Entries == 1..Len(glyph_mapping)
\* The last codepoint entry j stands for.
SpanEnd(j) == glyph_mapping[j].codepoint_start + emitted[j].consumed - 1
Covers(j, c) == glyph_mapping[j].codepoint_start <= c /\ c <= SpanEnd(j)

LoopBodyPcs == {"f4_while", "f4_search", "f4_segment", "f12_search", "f12_found"}

\* C2: every iteration of the per-range while loop, in both resolvers, either
\* returns an error or leaves codepoint_range.start strictly greater than it
\* was when the iteration began.
C2_EveryIterationAdvances ==
    [][ (pc \in LoopBodyPcs /\ pc' \in {"f4_while", "f12_while", "done"}) =>
            \/ pc' = "done" /\ result' = UnexpectedEndOfData
            \/ pc' # "done" /\ codepoint_range'.start > codepoint_range.start ]_vars

C4_TruncationIsErrorNeverPanic ==
    /\ (pc = "done" /\ Len(bytes) < full_len) => result = UnexpectedEndOfData
    /\ result # Panic

\* ---------------------------------------------------------------------- C5
\* The header and the encoding records as laid out in the table.
Version == Word16(0)
DeclaredTables == Word16(2)
RecordPlatform(i) == Word16(4 + 8 * i)
RecordEncoding(i) == Word16(4 + 8 * i + 2)
RecordOffset(i) == Word32(4 + 8 * i + 4)
RecordReadable(i) == 4 + 8 * (i + 1) <= Len(bytes)
RecordAcceptable(i) ==
    \/ RecordPlatform(i) = 0
    \/ RecordPlatform(i) = 3 /\ RecordEncoding(i) \in {1, 10}
Candidates == { i \in 0..(DeclaredTables - 1) : RecordReadable(i) /\ RecordAcceptable(i) }
FirstAcceptable == CHOOSE i \in Candidates : \A j \in Candidates : i <= j
SelectedFormat == Word16(RecordOffset(FirstAcceptable))

Format4Pcs == {"f4_header", "f4_for", "f4_while", "f4_search", "f4_segment"}
Format12Pcs == {"f12_header", "f12_for", "f12_while", "f12_search", "f12_found"}
EntryKinds == { emitted[j].kind : j \in Entries }

\* C5: a nonzero version gives UnsupportedCmapVersion before any record is
\* read; otherwise the first acceptable record alone decides the outcome (jump
\* to its offset, read the format, dispatch 4 / 12 / UnsupportedCmapFormat) and
\* no later record is read; UnsupportedCmapEncoding only after all num_tables
\* records were read and none was acceptable.
C5_FirstAcceptableRecordDecides ==
    /\ (pc # "start" /\ Version > 0) => result = UnsupportedCmapVersion /\ records_read = 0
    /\ result = UnsupportedCmapVersion => Version > 0
    /\ result = UnsupportedCmapEncoding =>
          /\ Version = 0
          /\ records_read = DeclaredTables
          /\ \A i \in 0..(DeclaredTables - 1) : RecordReadable(i) /\ ~RecordAcceptable(i)
    /\ pc \in Format4Pcs \cup Format12Pcs \cup {"format"} => Version = 0 /\ Candidates # {}
    /\ result = UnsupportedCmapFormat => Version = 0 /\ Candidates # {}
    /\ (Version = 0 /\ DeclaredTables >= 0 /\ Candidates # {}) =>
          /\ records_read <= FirstAcceptable + 1
          /\ pc \notin {"start", "records"} =>
                /\ records_read = FirstAcceptable + 1
                /\ pc = "format" => cmap_reader = RecordOffset(FirstAcceptable)
                /\ pc \in {"f4_header", "f12_header"} =>
                      cmap_reader = RecordOffset(FirstAcceptable) + 2
                /\ pc \in Format4Pcs => SelectedFormat = 4
                /\ pc \in Format12Pcs => SelectedFormat = 12
                /\ (pc = "done" /\ SelectedFormat < 0) => result = UnexpectedEndOfData
                /\ (pc = "done" /\ SelectedFormat >= 0 /\ SelectedFormat \notin {4, 12}) =>
                      result = UnsupportedCmapFormat
                /\ result = UnsupportedCmapFormat =>
                      SelectedFormat >= 0 /\ SelectedFormat \notin {4, 12}
                /\ SelectedFormat = 4 =>
                      EntryKinds \subseteq {"out_of_bmp", "unmapped", "direct", "indirect"}
                /\ SelectedFormat = 12 => EntryKinds \subseteq {"unmapped", "group"}

\* The second record is the first acceptable one and leads to an unsupported
\* format; the call ended UnsupportedCmapFormat.  Or: the first acceptable
\* record leads to an unsupported format although a later acceptable record
\* leads to a Format 4 or 12 subtable.
C5_Witness ==
    /\ result = UnsupportedCmapFormat
    /\ \E j \in Candidates : /\ j > FirstAcceptable
                             /\ Word16(RecordOffset(j)) \in {4, 12}

\* ---------------------------------------------------------------------- C6
SingleKinds == {"out_of_bmp", "unmapped", "indirect"}
GlyphSpan(j) == glyph_mapping[j].glyphs.end - glyph_mapping[j].glyphs.start

\* C6 as claimed: glyphs.end - glyphs.start = consumed - 1, modulo 2^16 for
\* Format 4 direct entries and in plain integers for Format 12 entries; every
\* other entry consumes one codepoint and has glyphs.start = glyphs.end.
C6_GlyphSpanPlainForFormat12 ==
    \A j \in Entries :
        /\ emitted[j].kind = "direct" =>
              GlyphSpan(j) % U16Mod = (emitted[j].consumed - 1) % U16Mod
        /\ emitted[j].kind = "group" => GlyphSpan(j) = emitted[j].consumed - 1
        /\ emitted[j].kind \in SingleKinds => emitted[j].consumed = 1 /\ GlyphSpan(j) = 0

\* C6 (amended): glyphs.end - glyphs.start = consumed - 1 modulo 2^16 for
\* Format 4 direct entries and for Format 12 entries alike (the glyph ids of a
\* group are narrowed to u16); every other entry consumes one codepoint and
\* has glyphs.start = glyphs.end.
C6_GlyphSpanModulo ==
    \A j \in Entries :
        /\ emitted[j].kind \in {"direct", "group"} =>
              GlyphSpan(j) % U16Mod = (emitted[j].consumed - 1) % U16Mod
        /\ emitted[j].kind \in SingleKinds => emitted[j].consumed = 1 /\ GlyphSpan(j) = 0

\* A Format 12 entry of several codepoints whose narrowed glyph ids wrap.
C6_Witness ==
    \E j \in Entries : /\ emitted[j].kind = "group"
                       /\ emitted[j].consumed >= 2
                       /\ glyph_mapping[j].glyphs.end < glyph_mapping[j].glyphs.start

MissingBranch ==
    \/ /\ pc = "f4_while"
       /\ codepoint_range.end >= codepoint_range.start
       /\ codepoint_range.start > U16Max
    \/ pc \in {"f4_search", "f12_search"} /\ ~(low < high)

\* C8: an out-of-BMP or unmapped codepoint pushes exactly one entry
\* {start, {0, 0}}, advances start by exactly 1, is no error, and leaves the
\* loop at its head for the next codepoint.
C8_MissingGlyphStepsByOne ==
    [][ MissingBranch =>
            /\ glyph_mapping' = Append(glyph_mapping,
                  [codepoint_start |-> codepoint_range.start,
                   glyphs |-> [start |-> 0, end |-> 0]])
            /\ codepoint_range'.start = codepoint_range.start + 1
            /\ codepoint_range'.end = codepoint_range.end
            /\ result' = "none"
            /\ pc' \in {"f4_while", "f12_while"} ]_vars

\* ---------------------------------------------------------------------- C9
\* The Format 4 parallel arrays as laid out in the table.
StartCode(i) == Word16(arrays.start_codes + 2 * i)
EndCode(i) == Word16(arrays.end_codes + 2 * i)
IdDelta(i) == Word16(arrays.id_deltas + 2 * i)
IdRangeOffset(i) == Word16(arrays.id_range_offsets + 2 * i)

\* The glyph id an indirect entry must carry when its raw value is the u16 at
\* byte `off` of the table: 0 stays 0, else idDelta is added modulo 2^16.
IndirectGlyphAt(off, i) ==
    IF Word16(off) = 0 THEN 0 ELSE (Word16(off) + IdDelta(i)) % U16Mod

IndirectEntryReadsAt(j, off) ==
    /\ Word16(off) >= 0
    /\ glyph_mapping[j].glyphs.start = IndirectGlyphAt(off, emitted[j].segment)
    /\ glyph_mapping[j].glyphs.end = IndirectGlyphAt(off, emitted[j].segment)

\* C9 as claimed: the entry for codepoint cp_start_u16 + code_offset carries the
\* glyph id read at base + i*2 + code_offset*2 + id_range_offset[i], with
\* code_offset counted from cp_start_u16, the first code of the sub-range.
C9_OffsetFromSubrangeStart ==
    \A j \in Entries :
        emitted[j].kind = "indirect" =>
            LET i == emitted[j].segment
                code_offset == glyph_mapping[j].codepoint_start - emitted[j].iter_start
            IN IndirectEntryReadsAt(j, arrays.id_range_offsets + i * 2 + code_offset * 2
                                       + IdRangeOffset(i))

\* C9 (amended): code_offset is counted from start_code[i], the first code of
\* the segment: the entry for codepoint start_code[i] + code_offset, for
\* code_offset from cp_start_u16 - start_code[i] on, carries the glyph id read
\* at base + i*2 + code_offset*2 + id_range_offset[i]; a raw 0 gives {0, 0}, a
\* raw g gives {g', g'} with g' = (g + id_delta[i]) mod 2^16.
C9_OffsetFromSegmentStart ==
    \A j \in Entries :
        emitted[j].kind = "indirect" =>
            LET i == emitted[j].segment
                code_offset == glyph_mapping[j].codepoint_start - StartCode(i)
            IN /\ IdRangeOffset(i) # 0
               /\ code_offset >= emitted[j].iter_start - StartCode(i)
               /\ IndirectEntryReadsAt(j, arrays.id_range_offsets + i * 2 + code_offset * 2
                                          + IdRangeOffset(i))

\* Indirect entries of a query that begins inside a segment, one with a raw 0
\* and one with a nonzero raw glyph id.
C9_Witness ==
    /\ \E j \in Entries : /\ emitted[j].kind = "indirect"
                          /\ emitted[j].iter_start > StartCode(emitted[j].segment)
                          /\ glyph_mapping[j].glyphs.start = 0
    /\ \E j \in Entries : /\ emitted[j].kind = "indirect"
                          /\ emitted[j].iter_start > StartCode(emitted[j].segment)
                          /\ glyph_mapping[j].glyphs.start # 0

\* --------------------------------------------------------------------- C10
Segments == 0..(seg_count - 1)
F4Sorted ==
    \A i \in Segments :
        /\ StartCode(i) <= EndCode(i)
        /\ (i + 1) \in Segments => EndCode(i) < StartCode(i + 1)
F4Containing(c) == { i \in Segments : StartCode(i) <= c /\ c <= EndCode(i) }

\* The Format 12 groups as laid out in the table.
Groups == 0..(num_groups - 1)
GroupAt(i) ==
    [start_char_code |-> Word32(cmap_reader + 12 * i),
     end_char_code |-> Word32(cmap_reader + 12 * i + 4),
     start_glyph_id |-> Word32(cmap_reader + 12 * i + 8)]
F12Sorted ==
    /\ cmap_reader + 12 * num_groups <= Len(bytes)
    /\ \A i \in Groups :
        /\ GroupAt(i).start_char_code <= GroupAt(i).end_char_code
        /\ (i + 1) \in Groups => GroupAt(i).end_char_code < GroupAt(i + 1).start_char_code
F12Containing(c) ==
    { i \in Groups : GroupAt(i).start_char_code <= c /\ c <= GroupAt(i).end_char_code }

\* What the search knows, over sorted disjoint segments: a segment holding the
\* codepoint lies in [low, high); `found` names the one segment holding it;
\* an empty window means no segment holds it.
SearchAgreesWithScan ==
    /\ (pc = "f4_search" /\ F4Sorted) =>
          F4Containing(codepoint_range.start) \subseteq low..(high - 1)
    /\ (pc = "f4_segment" /\ F4Sorted) =>
          F4Containing(codepoint_range.start) = { Unwrap(segment_index) }
    /\ (pc = "f12_search" /\ F12Sorted) =>
          F12Containing(codepoint_range.start) \subseteq low..(high - 1)
    /\ (pc = "f12_found" /\ F12Sorted) =>
          \E i \in Groups : /\ F12Containing(codepoint_range.start) = {i}
                            /\ found_segment = << GroupAt(i) >>

\* A probe that does not end the search shrinks the window [low, high).
SearchNarrows ==
    (pc \in {"f4_search", "f12_search"} /\ pc' = pc) =>
        /\ low <= low'
        /\ high' <= high
        /\ high' - low' < high - low

\* C10: over sorted, disjoint, well-formed segments or groups the binary search
\* reports `found` with exactly the one segment that holds the codepoint,
\* reports `not found` exactly when none holds it, and narrows [low, high) at
\* every probe.
C10_SearchAgreesWithLinearScan ==
    [] SearchAgreesWithScan /\ [][SearchNarrows]_vars

\* Three sorted segments; the search moved `low` up and found the last one.
C10_Witness ==
    /\ pc = "f4_segment"
    /\ F4Sorted
    /\ seg_count = 3
    /\ low > 0
    /\ segment_index = << 2 >>

====
